---- MODULE Spec2Model ----
(***************************************************************************)
(* State-machine model of the UniswapX priority-order fill strategy        *)
(* (src/src/strategies/priority_strategy.rs): the order ledger (open and   *)
(* done maps), the block handler, the routed-quote handler and the profit  *)
(* evaluator.                                                              *)
(***************************************************************************)
EXTENDS Integers, Sequences, FiniteSets, Bags, TLC

VARIABLES
    last_block_number,      \* UniswapXPriorityFill.last_block_number
    last_block_timestamp,   \* UniswapXPriorityFill.last_block_timestamp
    open_orders,            \* HashMap<String, PriorityOrderData>
    done_orders,            \* HashMap<String, u64>: hash -> prune deadline
    batch_channel,          \* messages in flight on batch_sender (bounded mpsc)
    pc,                     \* "idle", "sending" (suspended in send().await), "panicked"
    pending,                \* the snapshot a suspended send() is holding
    action,                 \* Option<Action> returned by the last process_event
    ev,                     \* the last event handed to process_event
    filled,                 \* history: hashes for which a fill log was processed
    pf_in,                  \* profit-evaluator harness: the routed order evaluated
    pf_out                  \* profit-evaluator harness: the result

vars == <<last_block_number, last_block_timestamp, open_orders, done_orders,
          batch_channel, pc, pending, action, ev, filled, pf_in, pf_out>>

----------------------------------------------------------------------------
(* Program constants *)

DONE_EXPIRY == 300

WETH_ADDRESS == <<"0","x","4","2","0","0","0","0","0","0","0","0","0","0","0","0","0","0","0","0","0","0","0","0","0","0","0","0","0","0","0","0","0","0","0","0","0","0","0","0","0","6">>

(* Bounds of the model *)

\* Width in bits of the modelled unsigned amount type (U256 in the program).
UintBits == 4
\* Number of distinct blocks the block collector can deliver.
MaxBlock == 3
\* Capacity of the bounded outbound batch channel.
BatchCap == 1

MaxU == 2^UintBits - 1

----------------------------------------------------------------------------
(* Option / Result values *)

None == [tag |-> "None"]
Some(v) == [tag |-> "Some", val |-> v]
Err == [tag |-> "Err"]
Ok(v) == [tag |-> "Ok", val |-> v]

(* HashMap operations *)

EmptyMap == << >>
MapInsert(m, k, v) == [x \in (DOMAIN m) \cup {k} |-> IF x = k THEN v ELSE m[x]]
MapRemove(m, k) == [x \in (DOMAIN m) \ {k} |-> m[x]]

(* Saturating / wrapping arithmetic at the modelled width *)

SaturatingSub(a, b) == IF a >= b THEN a - b ELSE 0
WrappingMul(a, b) == (a * b) % (MaxU + 1)
SaturatingMul(a, b) == IF a * b > MaxU THEN MaxU ELSE a * b
WrappingAdd(a, b) == (a + b) % (MaxU + 1)
CheckedDiv(a, b) == IF b = 0 THEN None ELSE Some(a \div b)

----------------------------------------------------------------------------
(* Strings as character sequences *)

ToLowerChar(c) ==
    CASE c = "A" -> "a" [] c = "B" -> "b" [] c = "C" -> "c"
      [] c = "D" -> "d" [] c = "E" -> "e" [] c = "F" -> "f"
      [] c = "X" -> "x" [] OTHER -> c

ToLowercase(s) == [i \in DOMAIN s |-> ToLowerChar(s[i])]

\* The same address with an upper-case radix prefix, and an unrelated token.
WETH_UPPER_X == [i \in DOMAIN WETH_ADDRESS |-> IF i = 2 THEN "X" ELSE WETH_ADDRESS[i]]
OTHER_TOKEN == <<"0","x","8","F">>

Tokens == {WETH_ADDRESS, WETH_UPPER_X, OTHER_TOKEN}

DigitChars == <<"0","1","2","3","4","5","6","7","8","9">>

DigitValue(c) ==
    IF \E d \in 1..10 : DigitChars[d] = c
    THEN (CHOOSE d \in 1..10 : DigitChars[d] = c) - 1
    ELSE -1

RECURSIVE ParseFrom(_, _, _)
ParseFrom(s, i, acc) ==
    IF i > Len(s) THEN Ok(acc)
    ELSE IF DigitValue(s[i]) < 0 THEN Err
    ELSE IF acc * 10 + DigitValue(s[i]) > MaxU THEN Err
    ELSE ParseFrom(s, i + 1, acc * 10 + DigitValue(s[i]))

\* U256::from_str_radix(s, 10): empty, non-digit or out-of-range input is an error.
FromStrRadix10(s) == IF Len(s) = 0 THEN Err ELSE ParseFrom(s, 1, 0)

RECURSIVE ToDecString(_)
\* Uint::to_string(): decimal digits, most significant first.
ToDecString(n) ==
    IF n < 10 THEN <<DigitChars[n + 1]>>
    ELSE Append(ToDecString(n \div 10), DigitChars[(n % 10) + 1])

HexChars == <<"0","1","2","3","4","5","6","7","8","9","a","b","c","d","e","f">>

\* format!("0x{:x}", topic): the topic's nibbles in lower-case hex after "0x".
FormatHash(topic) == "0x" \o HexChars[topic[1] + 1] \o HexChars[topic[2] + 1]

Topics == {<<10, 10>>, <<11, 11>>}
Hashes == {FormatHash(t) : t \in Topics}

----------------------------------------------------------------------------
(* Orders, the codec and the resolver *)

Tick == DONE_EXPIRY
FarDeadline == (MaxBlock + 2) * Tick

Output(tok, amt) == [token |-> tok, amount |-> amt]

\* valid_until is the last timestamp at which the order's amounts can be computed.
MkOrder(dl, vu, outs) ==
    [deadline |-> dl, valid_until |-> vu,
     input |-> Output(OTHER_TOKEN, 1), outputs |-> outs]

\* The structured orders a payload can decode to: one that expires after the
\* second block and whose output amounts sum past the largest amount, one with
\* an empty output list, and one whose constraints never admit a fill.
OrderGood ==
    MkOrder(2 * Tick, FarDeadline, <<Output(OTHER_TOKEN, MaxU), Output(OTHER_TOKEN, 1)>>)
OrderNoOutputs == MkOrder(FarDeadline, FarDeadline, << >>)
OrderInvalid == MkOrder(FarDeadline, 0, <<Output(OTHER_TOKEN, 1)>>)

\* An order whose constraints admit a fill at the first block and none later.
OrderLapsing == MkOrder(FarDeadline, Tick, <<Output(OTHER_TOKEN, 1)>>)

Orders == {OrderGood, OrderNoOutputs, OrderInvalid}

\* An encoded payload: whether it carries the "0x" prefix, whether the rest is
\* valid hex, and what the bytes decode to (Err for a malformed layout).
Payloads ==
    [prefixed : {TRUE}, hex_ok : {TRUE}, body : {Ok(o) : o \in Orders}]
    \cup [prefixed : {FALSE}, hex_ok : {TRUE}, body : {Ok(OrderGood)}]
    \cup [prefixed : {TRUE}, hex_ok : {FALSE}, body : {Err}]
    \cup [prefixed : {FALSE}, hex_ok : {TRUE}, body : {Err}]

DecodeOrder(encoded_order) ==
    IF ~encoded_order.hex_ok THEN Err ELSE encoded_order.body

Resolve(order, now) ==
    IF order.deadline < now THEN [tag |-> "Expired"]
    ELSE IF order.valid_until < now THEN [tag |-> "Invalid"]
    ELSE [tag |-> "Resolved",
          resolved |-> [input |-> order.input, outputs |-> order.outputs]]

----------------------------------------------------------------------------
(* The order ledger.  A ledger value is the pair of maps. *)

Ledger(o, d) == [open |-> o, done |-> d]

\* Mutant: the hash is not taken out of the open map.
MarkAsDoneKeepOpen(l, order_hash, ts) ==
    Ledger(l.open,
           IF order_hash \notin DOMAIN l.done
           THEN MapInsert(l.done, order_hash, ts + DONE_EXPIRY)
           ELSE l.done)

\* Mutant: the done entry gets the timestamp itself, without the retention window.
MarkAsDoneNoWindow(l, order_hash, ts) ==
    Ledger(IF order_hash \in DOMAIN l.open THEN MapRemove(l.open, order_hash) ELSE l.open,
           IF order_hash \notin DOMAIN l.done
           THEN MapInsert(l.done, order_hash, ts)
           ELSE l.done)

MarkAsDone(l, order_hash, ts) ==
    Ledger(IF order_hash \in DOMAIN l.open THEN MapRemove(l.open, order_hash) ELSE l.open,
           IF order_hash \notin DOMAIN l.done
           THEN MapInsert(l.done, order_hash, ts + DONE_EXPIRY)
           ELSE l.done)

\* Mutant: a resolved order is stored without looking at the done map.
UpdateOrderStateNoDoneCheck(l, order, signature, order_hash, ts) ==
    LET resolved == Resolve(order, ts) IN
    IF resolved.tag \in {"Expired", "Invalid"}
    THEN MarkAsDone(l, order_hash, ts)
    ELSE Ledger(MapInsert(l.open, order_hash,
                          [order |-> order, hash |-> order_hash,
                           signature |-> signature, resolved |-> resolved.resolved]),
                l.done)

UpdateOrderState(l, order, signature, order_hash, ts) ==
    LET resolved == Resolve(order, ts) IN
    IF resolved.tag \in {"Expired", "Invalid"}
    THEN MarkAsDone(l, order_hash, ts)
    ELSE IF order_hash \in DOMAIN l.done THEN l
    ELSE Ledger(MapInsert(l.open, order_hash,
                          [order |-> order, hash |-> order_hash,
                           signature |-> signature, resolved |-> resolved.resolved]),
                l.done)

RECURSIVE UpdateLoopStopsShort(_, _, _, _)
\* Mutant: with more than one order open, the loop ends before the last of them.
UpdateLoopStopsShort(l, binding, todo, ts) ==
    IF todo = {} \/ (Cardinality(todo) = 1 /\ Cardinality(DOMAIN binding) > 1) THEN l
    ELSE LET h == CHOOSE x \in todo : TRUE IN
         UpdateLoopStopsShort(
             UpdateOrderState(l, binding[h].order, binding[h].signature, h, ts),
             binding, todo \ {h}, ts)

RECURSIVE UpdateLoop(_, _, _, _)
\* The loop of update_open_orders over a clone of the open map.  Each iteration
\* touches only its own key, so the iteration order does not matter.
UpdateLoop(l, binding, todo, ts) ==
    IF todo = {} THEN l
    ELSE LET h == CHOOSE x \in todo : TRUE IN
         UpdateLoop(UpdateOrderState(l, binding[h].order, binding[h].signature, h, ts),
                    binding, todo \ {h}, ts)

UpdateOpenOrders(l, ts) == UpdateLoop(l, l.open, DOMAIN l.open, ts)

\* Mutant: an entry whose deadline equals the timestamp is pruned too.
PruneDoneOrdersInclusive(l, ts) ==
    LET to_remove == {h \in DOMAIN l.done : l.done[h] <= ts} IN
    Ledger(l.open, [h \in (DOMAIN l.done) \ to_remove |-> l.done[h]])

PruneDoneOrders(l, ts) ==
    LET to_remove == {h \in DOMAIN l.done : l.done[h] < ts} IN
    Ledger(l.open, [h \in (DOMAIN l.done) \ to_remove |-> l.done[h]])

----------------------------------------------------------------------------
(* Fill logs *)

\* Most logs one get_logs answer carries.
MaxLogs == 1

FILL_TOPIC == "Fill(bytes32,address,address,uint256)"

\* A log is its topic list: the event signature, then the indexed order hash.
\* A log whose only topic is the signature has no indexed order hash.
Logs == {<<FILL_TOPIC, t>> : t \in Topics} \cup {<<FILL_TOPIC>>}

RECURSIVE SeqsUpTo(_, _)
SeqsUpTo(S, n) ==
    IF n = 0 THEN {<< >>}
    ELSE LET shorter == SeqsUpTo(S, n - 1) IN
         shorter \cup {Append(q, x) : q \in {r \in shorter : Len(r) = n - 1}, x \in S}

\* What client.get_logs can answer: a transport error or a list of logs.
LogResults == {Err} \cup {Ok(logs) : logs \in SeqsUpTo(Logs, MaxLogs)}

\* UniswapXStrategy::current_timestamp: the time of the transition.
CurrentTimestamp(ts) == ts

\* Mutant: the filled order stays in the open map.
FillOneKeepOpen(l, order_hash, ts) ==
    Ledger(l.open, MapInsert(l.done, order_hash, CurrentTimestamp(ts) + DONE_EXPIRY))

\* The body of the for-loop of handle_fills for one log's order hash.
FillOne(l, order_hash, ts) ==
    Ledger(MapRemove(l.open, order_hash),
           MapInsert(l.done, order_hash, CurrentTimestamp(ts) + DONE_EXPIRY))

RECURSIVE FillLoop(_, _, _, _, _)
\* The for-loop of handle_fills from log i on.  Indexing topics[1] of a log with a
\* single topic panics; the maps keep what the earlier iterations did.
FillLoop(l, logs, i, ts, seen) ==
    IF i > Len(logs) THEN [ledger |-> l, panicked |-> FALSE, seen |-> seen]
    ELSE IF Len(logs[i]) < 2 THEN [ledger |-> l, panicked |-> TRUE, seen |-> seen]
    ELSE LET order_hash == FormatHash(logs[i][2]) IN
         FillLoop(FillOne(l, order_hash, ts), logs, i + 1, ts, seen \cup {order_hash})

HandleFills(l, logs, ts) == FillLoop(l, logs, 1, ts, {})

----------------------------------------------------------------------------
(* Snapshots *)

RECURSIVE FoldWrappingAdd(_, _, _)
FoldWrappingAdd(outputs, i, sum) ==
    IF i > Len(outputs) THEN sum
    ELSE FoldWrappingAdd(outputs, i + 1, WrappingAdd(sum, outputs[i].amount))

\* The batch get_order_batches pushes for one open order (outputs[0] must exist).
BatchOf(order_data) ==
    [orders |-> <<order_data>>,
     amount_in |-> order_data.resolved.input.amount,
     amount_out_required |-> FoldWrappingAdd(order_data.resolved.outputs, 1, 0),
     token_in |-> order_data.resolved.input.token,
     token_out |-> order_data.resolved.outputs[1].token]

\* outputs[0] of an order without outputs is out of bounds: get_order_batches panics.
BatchesPanic(open) == \E h \in DOMAIN open : Len(open[h].resolved.outputs) = 0

RECURSIVE PushBatches(_, _, _)
PushBatches(open, todo, order_batches) ==
    IF todo = {} THEN order_batches
    ELSE LET h == CHOOSE x \in todo : TRUE IN
         PushBatches(open, todo \ {h}, order_batches (+) SetToBag({BatchOf(open[h])}))

\* The vector get_order_batches returns.  The map is iterated in an unspecified
\* order, so the vector is kept as the bag of its elements.
GetOrderBatches(open) == PushBatches(open, DOMAIN open, EmptyBag)

----------------------------------------------------------------------------
(* The profit evaluator *)

\* WETH_ADDRESS.to_lowercase()
WethLowercase == ToLowercase(WETH_ADDRESS)

\* Mutant: the quote is not compared with the required output.
GetProfitEthNoLeTest(ro) ==
    LET quote == FromStrRadix10(ro.route.quote)
        amount_out_required ==
            FromStrRadix10(ToDecString(ro.request.amount_out_required))
    IN
    IF quote.tag = "Err" \/ amount_out_required.tag = "Err" THEN None
    ELSE
      LET profit_quote == SaturatingSub(quote.val, amount_out_required.val) IN
      IF ToLowercase(ro.request.token_out) = WethLowercase
      THEN Some(profit_quote)
      ELSE
        LET gas_use_estimate == FromStrRadix10(ro.route.gas_use_estimate)
            gas_price_wei == FromStrRadix10(ro.route.gas_price_wei)
            gas_use_estimate_quote == FromStrRadix10(ro.route.gas_use_estimate_quote)
        IN
        IF gas_use_estimate.tag = "Err" \/ gas_price_wei.tag = "Err" THEN None
        ELSE
          LET gas_use_eth == SaturatingMul(gas_use_estimate.val, gas_price_wei.val) IN
          IF gas_use_estimate_quote.tag = "Err" THEN None
          ELSE CheckedDiv(SaturatingMul(profit_quote, gas_use_eth),
                          gas_use_estimate_quote.val)

GetProfitEth(ro) ==
    LET quote == FromStrRadix10(ro.route.quote)
        amount_out_required ==
            FromStrRadix10(ToDecString(ro.request.amount_out_required))
    IN
    IF quote.tag = "Err" \/ amount_out_required.tag = "Err" THEN None
    ELSE IF quote.val <= amount_out_required.val THEN None
    ELSE
      LET profit_quote == SaturatingSub(quote.val, amount_out_required.val) IN
      IF ToLowercase(ro.request.token_out) = WethLowercase
      THEN Some(profit_quote)
      ELSE
        LET gas_use_estimate == FromStrRadix10(ro.route.gas_use_estimate)
            gas_price_wei == FromStrRadix10(ro.route.gas_price_wei)
            gas_use_estimate_quote == FromStrRadix10(ro.route.gas_use_estimate_quote)
        IN
        IF gas_use_estimate.tag = "Err" \/ gas_price_wei.tag = "Err" THEN None
        ELSE
          LET gas_use_eth == SaturatingMul(gas_use_estimate.val, gas_price_wei.val) IN
          IF gas_use_estimate_quote.tag = "Err" THEN None
          ELSE CheckedDiv(SaturatingMul(profit_quote, gas_use_eth),
                          gas_use_estimate_quote.val)

----------------------------------------------------------------------------
(* Events *)

\* The blocks the block collector delivers: block k is mined at time k * Tick.
Blocks == {[number |-> k, timestamp |-> k * Tick] : k \in 1..MaxBlock}

\* The orders of a routed batch: priority orders with a well-formed signature,
\* one with a signature that is not hex, and an order of another kind.
GoodOrderDatas ==
    {[variant |-> "PriorityOrderData", hash |-> h, signature |-> [hex_ok |-> TRUE]] : h \in Hashes}

BadOrderDatas ==
    {[variant |-> "PriorityOrderData", hash |-> FormatHash(<<10, 10>>),
      signature |-> [hex_ok |-> FALSE]],
     [variant |-> "V2DutchOrderData", hash |-> FormatHash(<<11, 11>>),
      signature |-> [hex_ok |-> TRUE]]}

\* Most orders one routed batch carries.
MaxBatch == 2

\* A routed batch names each of its orders once.
RouteOrders ==
    {os \in SeqsUpTo(GoodOrderDatas, MaxBatch) \ {<< >>} :
        \A i, j \in DOMAIN os : os[i] = os[j] => i = j}
    \cup {<<o>> : o \in BadOrderDatas}

Route(q, gue, gp, gueq) ==
    [quote |-> q, gas_use_estimate |-> gue, gas_price_wei |-> gp,
     gas_use_estimate_quote |-> gueq]

\* The quotes the router is modelled to return to the running strategy, with the
\* output token of the batch: unprofitable, profitable in the reference asset,
\* and profitable in another token with a divisor larger than the dividend.
Quotes ==
    {[token_out |-> WETH_ADDRESS, route |-> Route(<<"1">>, <<"1">>, <<"1">>, <<"1">>)],
     [token_out |-> WETH_ADDRESS, route |-> Route(<<"3">>, <<"1">>, <<"1">>, <<"1">>)],
     [token_out |-> OTHER_TOKEN, route |-> Route(<<"3">>, <<"1">>, <<"1">>, <<"4">>)]}

RoutedOrders ==
    {[request |-> [orders |-> os, amount_out_required |-> 2, token_out |-> q.token_out],
      route |-> q.route] : os \in RouteOrders, q \in Quotes}

OrderHashes(orders) == {orders[i].hash : i \in DOMAIN orders}

\* get_signed_orders: Ok unless an order is of another kind or its signature
\* does not parse as hex.
GetSignedOrdersOk(orders) ==
    \A i \in DOMAIN orders :
        orders[i].variant = "PriorityOrderData" /\ orders[i].signature.hex_ok

\* Where each hash was when the event arrived.
Before ==
    [h \in Hashes |-> IF h \in DOMAIN open_orders THEN "open"
                       ELSE IF h \in DOMAIN done_orders THEN "done" ELSE "none"]

\* What the resolver yielded for each hash while the event was handled.
NotResolved == [h \in Hashes |-> "None"]

InitEv == [kind |-> "init", hashes |-> {}, ok |-> TRUE, res |-> "None",
           before |-> [h \in Hashes |-> "none"], resolutions |-> NotResolved]

Unset == [tag |-> "Unset"]

\* The state UniswapXPriorityFill::new builds, with all channels empty.
Constructed ==
    /\ last_block_number = 0
    /\ last_block_timestamp = 0
    /\ open_orders = EmptyMap
    /\ done_orders = EmptyMap
    /\ batch_channel = << >>
    /\ pc = "idle"
    /\ pending = None
    /\ action = None
    /\ ev = InitEv

Init ==
    /\ Constructed
    /\ filled = [tracking |-> FALSE, hashes |-> {}]
    /\ pf_in = None
    /\ pf_out = Unset

\* The same program with the history of processed fill logs recorded.
InitHistory ==
    /\ Constructed
    /\ filled = [tracking |-> TRUE, hashes |-> {}]
    /\ pf_in = None
    /\ pf_out = Unset

\* Mutant: orders are accepted before a block has set the timestamp.
OrderEventLedgerNoGuard(l, ts, encoded_order, signature, order_hash) ==
    LET order == DecodeOrder(encoded_order) IN
    IF order.tag = "Err" THEN l
    ELSE UpdateOrderState(l, order.val, signature, order_hash, ts)

\* Mutant: an order that fails to decode is recorded as done.
OrderEventLedgerDoneOnErr(l, ts, encoded_order, signature, order_hash) ==
    IF ts = 0 THEN l
    ELSE LET order == DecodeOrder(encoded_order) IN
         IF order.tag = "Err" THEN MarkAsDone(l, order_hash, ts)
         ELSE UpdateOrderState(l, order.val, signature, order_hash, ts)

\* process_order_event, as an operator on the ledger.
OrderEventLedger(l, ts, encoded_order, signature, order_hash) ==
    IF ts = 0 THEN l
    ELSE LET order == DecodeOrder(encoded_order) IN
         IF order.tag = "Err" THEN l
         ELSE UpdateOrderState(l, order.val, signature, order_hash, ts)

ProcessOrderEvent(encoded_order, signature, order_hash) ==
    /\ pc = "idle"
    /\ \E l \in {OrderEventLedger(Ledger(open_orders, done_orders), last_block_timestamp,
                                  encoded_order, signature, order_hash)} :
          /\ open_orders' = l.open
          /\ done_orders' = l.done
    /\ action' = None
    /\ ev' = [kind |-> "order", hashes |-> {order_hash},
              ok |-> DecodeOrder(encoded_order).tag = "Ok",
              res |-> IF DecodeOrder(encoded_order).tag = "Ok"
                      THEN Resolve(DecodeOrder(encoded_order).val, last_block_timestamp).tag
                      ELSE "None",
              before |-> Before,
              resolutions |->
                  IF last_block_timestamp # 0 /\ DecodeOrder(encoded_order).tag = "Ok"
                  THEN [NotResolved EXCEPT ![order_hash] =
                          Resolve(DecodeOrder(encoded_order).val, last_block_timestamp).tag]
                  ELSE NotResolved]
    /\ UNCHANGED <<last_block_number, last_block_timestamp, batch_channel, pc,
                   pending, filled, pf_in, pf_out>>

\* Mutant: the route is dropped only when all of its orders are done.
NewRouteActionAllDone(done, event, build_ok) ==
    IF \A i \in DOMAIN event.request.orders :
          event.request.orders[i].hash \in DOMAIN done
    THEN None
    ELSE LET profit == GetProfitEth(event) IN
         IF profit.tag = "None" THEN None
         ELSE IF ~GetSignedOrdersOk(event.request.orders) THEN None
         ELSE IF ~build_ok THEN None
         ELSE Some([total_profit |-> profit.val])

\* process_new_route: the returned Option<Action>.
NewRouteAction(done, event, build_ok) ==
    IF \E i \in DOMAIN event.request.orders :
          event.request.orders[i].hash \in DOMAIN done
    THEN None
    ELSE LET profit == GetProfitEth(event) IN
         IF profit.tag = "None" THEN None
         ELSE IF ~GetSignedOrdersOk(event.request.orders) THEN None
         ELSE IF ~build_ok THEN None
         ELSE Some([total_profit |-> profit.val])

RECURSIVE DecimalValue(_)
\* The number a string of decimal digits denotes, on unbounded integers.
DecimalValue(s) ==
    IF Len(s) = 0 THEN 0
    ELSE 10 * DecimalValue(SubSeq(s, 1, Len(s) - 1)) + DigitValue(s[Len(s)])

\* How the quote of a routed order stands against the output its batch requires.
QuoteAgainstRequired(event) ==
    IF DecimalValue(event.route.quote) <= event.request.amount_out_required
    THEN "QuoteLeRequired" ELSE "QuoteGtRequired"

\* Mutant: the orders of a submitted route are recorded as done.
ProcessNewRouteMarksDone(event, build_ok) ==
    /\ pc = "idle"
    /\ action' = NewRouteAction(done_orders, event, build_ok)
    /\ done_orders' = IF action'.tag = "None" THEN done_orders
                      ELSE [h \in DOMAIN done_orders \cup OrderHashes(event.request.orders) |->
                              IF h \in DOMAIN done_orders THEN done_orders[h]
                              ELSE last_block_timestamp + DONE_EXPIRY]
    /\ ev' = [kind |-> "route", hashes |-> OrderHashes(event.request.orders),
              ok |-> TRUE, res |-> QuoteAgainstRequired(event), before |-> Before,
              resolutions |-> NotResolved]
    /\ UNCHANGED <<last_block_number, last_block_timestamp, open_orders,
                   batch_channel, pc, pending, filled, pf_in, pf_out>>

ProcessNewRoute(event, build_ok) ==
    /\ pc = "idle"
    /\ action' = NewRouteAction(done_orders, event, build_ok)
    /\ ev' = [kind |-> "route", hashes |-> OrderHashes(event.request.orders),
              ok |-> TRUE, res |-> QuoteAgainstRequired(event), before |-> Before,
              resolutions |-> NotResolved]
    /\ UNCHANGED <<last_block_number, last_block_timestamp, open_orders, done_orders,
                   batch_channel, pc, pending, filled, pf_in, pf_out>>

\* Mutant: a failed get_logs is taken for an empty answer and the step goes on.
BlockLedgerIgnoreErr(l, logs, ts) ==
    LET f == HandleFills(l, IF logs.tag = "Err" THEN << >> ELSE logs.val, ts) IN
    IF f.panicked
    THEN [ledger |-> f.ledger, panicked |-> TRUE, seen |-> f.seen, send |-> FALSE]
    ELSE [ledger |-> PruneDoneOrders(UpdateOpenOrders(f.ledger, ts), ts),
          panicked |-> FALSE, seen |-> f.seen, send |-> TRUE]

\* process_new_block_event up to the send, as an operator on the ledger: a failed
\* get_logs returns early; otherwise handle_fills, then update_open_orders and
\* prune_done_orders unless a log without an order-hash topic made the loop panic.
\* `send` tells whether the handler goes on to get_order_batches and the send.
BlockLedger(l, logs, ts) ==
    IF logs.tag = "Err"
    THEN [ledger |-> l, panicked |-> FALSE, seen |-> {}, send |-> FALSE]
    ELSE LET f == HandleFills(l, logs.val, ts) IN
         IF f.panicked
         THEN [ledger |-> f.ledger, panicked |-> TRUE, seen |-> f.seen, send |-> FALSE]
         ELSE [ledger |-> PruneDoneOrders(UpdateOpenOrders(f.ledger, ts), ts),
               panicked |-> FALSE, seen |-> f.seen, send |-> TRUE]

ProcessNewBlockEvent(event, logs) ==
    /\ pc = "idle"
    /\ last_block_number' = event.number
    /\ last_block_timestamp' = event.timestamp
    /\ action' = None
    /\ UNCHANGED <<pf_in, pf_out>>
    /\ \E b \in {BlockLedger(Ledger(open_orders, done_orders), logs, event.timestamp)} :
         /\ open_orders' = b.ledger.open
         /\ done_orders' = b.ledger.done
         /\ filled' = IF filled.tracking
                      THEN [filled EXCEPT !.hashes = @ \cup b.seen]
                      ELSE filled
         /\ ev' = [kind |-> "block", hashes |-> b.seen, ok |-> logs.tag = "Ok",
                   res |-> IF b.panicked THEN "NoTopic" ELSE "None",
                   before |-> Before,
                   resolutions |->
                       [h \in Hashes |->
                          IF b.send /\ h \in DOMAIN open_orders \ b.seen
                          THEN Resolve(open_orders[h].order, event.timestamp).tag
                          ELSE "None"]]
         /\ IF b.panicked \/ (b.send /\ BatchesPanic(b.ledger.open))
            THEN /\ pc' = "panicked"
                 /\ UNCHANGED <<batch_channel, pending>>
            ELSE IF ~b.send
            THEN UNCHANGED <<batch_channel, pc, pending>>
            ELSE \E snapshot \in {GetOrderBatches(b.ledger.open)} :
                   IF Len(batch_channel) < BatchCap
                   THEN /\ batch_channel' = Append(batch_channel, snapshot)
                        /\ UNCHANGED <<pc, pending>>
                   ELSE /\ pc' = "sending"
                        /\ pending' = Some(snapshot)
                        /\ UNCHANGED batch_channel

\* The suspended send().await resumes once the channel has room.
SendResume ==
    /\ pc = "sending"
    /\ Len(batch_channel) < BatchCap
    /\ batch_channel' = Append(batch_channel, pending.val)
    /\ pending' = None
    /\ pc' = "idle"
    /\ UNCHANGED <<last_block_number, last_block_timestamp, open_orders, done_orders,
                   action, ev, filled, pf_in, pf_out>>

\* The router takes the oldest snapshot off the channel.
RouterRecv ==
    /\ Len(batch_channel) > 0
    /\ batch_channel' = Tail(batch_channel)
    /\ UNCHANGED <<last_block_number, last_block_timestamp, open_orders, done_orders,
                   pc, pending, action, ev, filled, pf_in, pf_out>>

OrderEvent ==
    \E p \in Payloads, h \in Hashes : ProcessOrderEvent(p, [hex_ok |-> TRUE], h)

BlockEvent ==
    \E b \in Blocks, r \in LogResults : ProcessNewBlockEvent(b, r)

RouteEvent ==
    \E r \in RoutedOrders, build_ok \in BOOLEAN : ProcessNewRoute(r, build_ok)

Next == OrderEvent \/ BlockEvent \/ RouteEvent \/ SendResume \/ RouterRecv

Spec == Init /\ [][Next]_vars

\* An order-submission event for an order with outputs that resolves when first
\* submitted: the one that expires or the one that lapses.
ResolvableOrderEvent ==
    \E o \in {OrderGood, OrderLapsing}, h \in Hashes :
        ProcessOrderEvent([prefixed |-> TRUE, hex_ok |-> TRUE, body |-> Ok(o)],
                          [hex_ok |-> TRUE], h)

\* Block events and the submission of orders that a later block re-resolves.
NextReresolve == ResolvableOrderEvent \/ BlockEvent \/ SendResume \/ RouterRecv

SpecReresolve == Init /\ [][NextReresolve]_vars

\* A block event whose timestamp is above that of every block before it.
RisingBlockEvent ==
    \E b \in Blocks, r \in LogResults :
        /\ b.timestamp > last_block_timestamp
        /\ ProcessNewBlockEvent(b, r)

\* The program fed blocks with strictly increasing timestamps.
NextRising == OrderEvent \/ RisingBlockEvent \/ RouteEvent \/ SendResume \/ RouterRecv

SpecRising == Init /\ [][NextRising]_vars

\* Order-submission and block events only, with the fill history recorded.
NextHistory == OrderEvent \/ BlockEvent \/ SendResume \/ RouterRecv

SpecHistory == InitHistory /\ [][NextHistory]_vars

----------------------------------------------------------------------------
(* The profit evaluator on its own: every routed order over a set of amounts *)

\* Amounts around the edges of the unsigned range.
PfAmounts == {0, 1, 2, 3, MaxU}

\* The numbers behind the decimal strings of a route; MaxU + 1 is not representable.
PfNums ==
    [quote : PfAmounts \cup {MaxU + 1}, required : PfAmounts,
     gue : PfAmounts \cup {MaxU + 1}, gp : PfAmounts \cup {MaxU + 1},
     gueq : PfAmounts \cup {MaxU + 1}]

PfCase(n, tok) ==
    [nums |-> n,
     ro |-> [request |-> [orders |-> << >>, amount_out_required |-> n.required,
                          token_out |-> tok],
             route |-> Route(ToDecString(n.quote), ToDecString(n.gue),
                             ToDecString(n.gp), ToDecString(n.gueq))]]

InitProfit ==
    /\ Constructed
    /\ filled = [tracking |-> FALSE, hashes |-> {}]
    /\ pf_in \in {PfCase(n, tok) : n \in PfNums, tok \in Tokens}
    /\ pf_out = Unset

EvaluateProfit ==
    /\ pf_out = Unset
    /\ pf_out' = [tag |-> "Done", result |-> GetProfitEth(pf_in.ro)]
    /\ UNCHANGED <<last_block_number, last_block_timestamp, open_orders, done_orders,
                   batch_channel, pc, pending, action, ev, filled, pf_in>>

NextProfit == EvaluateProfit

SpecProfit == InitProfit /\ [][NextProfit]_vars

----------------------------------------------------------------------------
(* Vocabulary of the properties *)

OpenSet == DOMAIN open_orders
DoneSet == DOMAIN done_orders

\* This step is process_event handling an event of the given kind: the handler
\* starts idle, and unlike the router's receive it never shortens the channel.
EventStep(kind) ==
    /\ pc = "idle"
    /\ Len(batch_channel') >= Len(batch_channel)
    /\ ev'.kind = kind

\* The snapshot this step hands to the batch channel, if any: appended, or held
\* by the suspended send.
SnapshotSent ==
    IF pc = "idle" /\ pc' = "sending" THEN {pending'.val}
    ELSE IF Len(batch_channel') = Len(batch_channel) + 1
    THEN {batch_channel'[Len(batch_channel')]}
    ELSE {}

BatchesFor(snapshot, h) ==
    {b \in BagToSet(snapshot) : \E i \in DOMAIN b.orders : b.orders[i].hash = h}

\* One batch of size 1 per open hash and nothing else.
IsSnapshotOf(snapshot, open, done) ==
    /\ \A b \in BagToSet(snapshot) :
          /\ Len(b.orders) = 1
          /\ b.orders[1].hash \in DOMAIN open
          /\ b.orders[1].hash \notin DOMAIN done
    /\ \A h \in DOMAIN open :
          /\ Cardinality(BatchesFor(snapshot, h)) = 1
          /\ \A b \in BatchesFor(snapshot, h) : CopiesIn(b, snapshot) = 1

----------------------------------------------------------------------------
(* C1: in every reachable state no order hash is a key of both the open map
   and the done map. *)
C1_OpenDoneDisjoint == OpenSet \cap DoneSet = {}

\* A fill log has just moved an open hash to done while the other is still open.
C1_Witness ==
    /\ ev.kind = "block"
    /\ \E h \in ev.hashes : ev.before[h] = "open" /\ h \in DoneSet /\ h \notin OpenSet
    /\ OpenSet # {}

(* C2 as stated: once a fill log for H has been processed, an order-submission
   event carrying H never puts H into the open map, however much later. *)
C2_FilledNeverReopens ==
    [][\A h \in Hashes :
         (EventStep("order") /\ h \in filled.hashes /\ h \in ev'.hashes)
            => h \notin DOMAIN open_orders']_vars

(* C2 amended: once a fill log for H has been processed, and for as long as H
   is still a key of the done map (it is pruned by the first block whose
   timestamp exceeds its deadline), an order-submission event carrying H leaves
   H absent from the open map, even when its resolution is Resolved. *)
C2_FilledStaysClosedWhileDone ==
    [][\A h \in Hashes :
         (EventStep("order") /\ h \in filled.hashes /\ h \in ev'.hashes
            /\ h \in DoneSet)
            => h \notin DOMAIN open_orders']_vars

\* A resolvable order was submitted for a filled hash that is still done.
C2_Witness ==
    /\ ev.kind = "order" /\ ev.res = "Resolved"
    /\ \E h \in ev.hashes :
          /\ h \in filled.hashes /\ ev.before[h] = "done"
          /\ h \in DoneSet /\ h \notin OpenSet

(* C3: a routed-quote event with at least one order hash in the done map
   emits no submission action. *)
C3_StaleRouteDropped ==
    [][(EventStep("route") /\ ev'.hashes \cap DoneSet # {}) => action' = None]_vars

\* A route over two orders, only one of them done, has been dropped.
C3_Witness ==
    /\ ev.kind = "route"
    /\ ev.hashes \cap DoneSet # {} /\ ev.hashes \ DoneSet # {}
    /\ action = None

\* The block handler ran prune_done_orders in this step.
PruneStep == EventStep("block") /\ ev'.ok /\ pc' # "panicked"

(* C4 as stated: after a prune run at timestamp now, a done entry with deadline
   d is present if now < d and absent if now >= d. *)
C4_PruneAtDeadline ==
    [][PruneStep =>
         /\ \A h \in DoneSet :
               last_block_timestamp' < done_orders[h] => h \in DOMAIN done_orders'
         /\ \A h \in DOMAIN done_orders' :
               ~(last_block_timestamp' >= done_orders'[h])]_vars

(* C4 amended: after a prune run at timestamp now, a done entry with deadline
   d is present if now <= d and absent if now > d; an entry whose deadline
   equals now is kept. *)
C4_PruneAfterDeadline ==
    [][PruneStep =>
         /\ \A h \in DoneSet :
               last_block_timestamp' <= done_orders[h] => h \in DOMAIN done_orders'
         /\ \A h \in DOMAIN done_orders' :
               ~(last_block_timestamp' > done_orders'[h])]_vars

\* A prune has just run and kept an entry whose deadline is the block's timestamp.
C4_Witness ==
    /\ ev.kind = "block" /\ ev.ok /\ pc # "panicked"
    /\ \E h \in DoneSet : done_orders[h] = last_block_timestamp

(* C5: when get_logs fails, the block step stops there: the open and done maps
   are unchanged, nothing is published, no action is returned, and the handler is
   idle again so the next block event queries anew. *)
C5_FailedQuerySkipsStep ==
    [][(EventStep("block") /\ ~ev'.ok) =>
         /\ open_orders' = open_orders
         /\ done_orders' = done_orders
         /\ batch_channel' = batch_channel
         /\ pending' = pending
         /\ pc' = "idle"
         /\ action' = None]_vars

\* The query failed while an open order was due to expire and a done entry
\* was due to be pruned.
C5_Witness ==
    /\ ev.kind = "block" /\ ~ev.ok
    /\ \E h \in OpenSet : open_orders[h].order.deadline < last_block_timestamp
    /\ \E h \in DoneSet : done_orders[h] < last_block_timestamp

(* C6: when the block handler at timestamp t processes a fill log for a hash H
   of the open map, then after the event H is not open, H is done with
   deadline t + DONE_EXPIRY, and the snapshot of that block has no batch for H. *)
C6_FillMovesOpenToDone ==
    [][\A h \in Hashes :
         (EventStep("block") /\ h \in ev'.hashes /\ h \in OpenSet) =>
            /\ h \notin DOMAIN open_orders'
            /\ h \in DOMAIN done_orders'
            /\ done_orders'[h] = last_block_timestamp' + DONE_EXPIRY
            /\ \A snapshot \in SnapshotSent : BatchesFor(snapshot, h) = {}]_vars

\* A fill of an open order has been processed and the snapshot of that block,
\* holding the one order still open, is on the channel.
C6_Witness ==
    /\ ev.kind = "block" /\ pc = "idle"
    /\ \E h \in ev.hashes :
          /\ ev.before[h] = "open"
          /\ h \notin OpenSet
          /\ done_orders[h] = last_block_timestamp + DONE_EXPIRY
    /\ OpenSet # {}
    /\ Len(batch_channel) > 0
    /\ IsSnapshotOf(batch_channel[Len(batch_channel)], open_orders, done_orders)

(* C7: every block event whose log query succeeds hands exactly one snapshot to
   the batch channel, with exactly one batch of size 1 per hash then open and
   no batch for a done hash.  Stated here for answers whose logs all carry the
   order-hash topic, and counting a snapshot held by a waiting send as handed over. *)
C7_SuccessfulBlockPublishes ==
    [][(EventStep("block") /\ ev'.ok /\ ev'.res # "NoTopic") =>
         \E snapshot \in SnapshotSent :
            IsSnapshotOf(snapshot, open_orders', done_orders')]_vars

(* C8: when the batch channel is full as a block event reaches the send, the
   snapshot is dropped and the handler completes without waiting. *)
C8_FullChannelDropsSnapshot ==
    [][(EventStep("block") /\ ev'.ok /\ pc' # "panicked"
          /\ Len(batch_channel) = BatchCap) =>
         /\ pc' = "idle"
         /\ batch_channel' = batch_channel]_vars

(* C9: before any block event has been processed every order-submission event
   is dropped: both maps stay empty and no action is returned. *)
C9_OrdersDroppedBeforeFirstBlock ==
    [][(EventStep("order") /\ last_block_number = 0) =>
         /\ open_orders' = EmptyMap
         /\ done_orders' = EmptyMap
         /\ action' = None]_vars

\* An order that would resolve was submitted before the first block.
C9_Witness ==
    /\ ev.kind = "order" /\ ev.res = "Resolved"
    /\ last_block_number = 0
    /\ open_orders = EmptyMap

----------------------------------------------------------------------------
(* The reference profit of section 4.3, on unbounded integers *)

Min(a, b) == IF a <= b THEN a ELSE b

CasePairs == {<<"a","A">>, <<"b","B">>, <<"c","C">>, <<"d","D">>,
              <<"e","E">>, <<"f","F">>, <<"x","X">>}

SameLetter(c, d) == c = d \/ <<c, d>> \in CasePairs \/ <<d, c>> \in CasePairs

IsReferenceAsset(tok) ==
    /\ Len(tok) = Len(WETH_ADDRESS)
    /\ \A i \in DOMAIN tok : SameLetter(tok[i], WETH_ADDRESS[i])

RefProfit(n, tok) ==
    IF n.quote <= n.required THEN None
    ELSE IF IsReferenceAsset(tok) THEN Some(n.quote - n.required)
    ELSE IF n.gueq = 0 THEN None
    ELSE Some(Min(MaxU, Min(MaxU, n.gue * n.gp) * (n.quote - n.required)) \div n.gueq)

Representable(n) ==
    n.quote <= MaxU /\ n.required <= MaxU /\ n.gue <= MaxU /\ n.gp <= MaxU
    /\ n.gueq <= MaxU

(* C10: for every routed order whose amounts are representable, get_profit_eth
   equals the reference profit: none if quote <= required, quote - required for
   the reference asset, else the doubly saturated product divided with
   truncation, none on a zero divisor; no intermediate value wraps. *)
C10_ProfitMatchesReference ==
    (pf_out.tag = "Done" /\ Representable(pf_in.nums)) =>
        pf_out.result = RefProfit(pf_in.nums, pf_in.ro.request.token_out)

\* Both products exceed the largest amount and the division truncates.
C10_Witness ==
    /\ pf_out.tag = "Done" /\ Representable(pf_in.nums)
    /\ ~IsReferenceAsset(pf_in.ro.request.token_out)
    /\ pf_in.nums.gue * pf_in.nums.gp > MaxU
    /\ pf_in.nums.quote > pf_in.nums.required + 1
    /\ pf_in.nums.gueq = 2
    /\ pf_out.result = Some(MaxU \div 2)

----------------------------------------------------------------------------
(* C11: no event is fatal: in every reachable state the handler of the last
   event has returned normally, also for a block event while an open order has
   no resolved outputs and for a log without an indexed order-hash topic. *)
C11_NoEventIsFatal == pc # "panicked"

----------------------------------------------------------------------------
RECURSIVE TrueSum(_, _)
\* The sum of the output amounts from output i on, on unbounded integers.
TrueSum(outputs, i) ==
    IF i > Len(outputs) THEN 0 ELSE outputs[i].amount + TrueSum(outputs, i + 1)

(* C12: in every snapshot batch amount_out_required is the saturating sum of
   the order's resolved output amounts: the largest representable amount when
   the true sum exceeds it, never the sum wrapped modulo 2^UintBits. *)
C12_AmountOutRequiredSaturates ==
    \A i \in DOMAIN batch_channel :
        \A b \in BagToSet(batch_channel[i]) :
            b.amount_out_required =
                Min(MaxU, TrueSum(b.orders[1].resolved.outputs, 1))

----------------------------------------------------------------------------
(* C13: when the block handler processes a fill log for a hash H that is
   already in the done map, H's deadline is left as it was: unless the prune of
   the same block removes the entry, H is done afterwards with the deadline it
   had; and H is not open afterwards. *)
C13_FillKeepsDoneDeadline ==
    [][\A h \in Hashes :
         (EventStep("block") /\ h \in ev'.hashes /\ h \in DoneSet) =>
            /\ h \notin DOMAIN open_orders'
            /\ h \in DOMAIN done_orders' => done_orders'[h] = done_orders[h]
            /\ last_block_timestamp' <= done_orders[h] => h \in DOMAIN done_orders']_vars

----------------------------------------------------------------------------
(* C14: a routed-quote event leaves the open map, the done map and the last
   block number and timestamp as they were, whether or not it returns an
   action; and when the quote is not above the required output it returns no
   action. *)
C14_RouteLeavesLedger ==
    [][EventStep("route") =>
         /\ open_orders' = open_orders
         /\ done_orders' = done_orders
         /\ last_block_number' = last_block_number
         /\ last_block_timestamp' = last_block_timestamp
         /\ ev'.res = "QuoteLeRequired" => action' = None]_vars

\* A route over an open order, none of its orders done, was dropped for its
\* quote while the ledger holds both an open and a done order.
C14_Witness ==
    /\ ev.kind = "route" /\ ev.res = "QuoteLeRequired"
    /\ OpenSet # {} /\ DoneSet # {}
    /\ ev.hashes \cap DoneSet = {} /\ ev.hashes \cap OpenSet # {}
    /\ action = None

----------------------------------------------------------------------------
(* C15: when a block event whose log query succeeds reaches the re-resolution
   with an order O open and not filled by that block, and the resolver yields
   Expired or Invalid for O at the block's timestamp, then after the event O is
   not open, O is done with deadline = the block's timestamp + 300, and the
   snapshot of that block has no batch for O. *)
C15_ExpiredOpenOrderMovesToDone ==
    [][\A h \in Hashes :
         (/\ EventStep("block") /\ ev'.ok /\ ev'.res # "NoTopic"
          /\ h \in OpenSet /\ h \notin ev'.hashes
          /\ Resolve(open_orders[h].order, last_block_timestamp').tag
                \in {"Expired", "Invalid"}) =>
            /\ h \notin DOMAIN open_orders'
            /\ h \in DOMAIN done_orders'
            /\ done_orders'[h] = last_block_timestamp' + 300
            /\ \A snapshot \in SnapshotSent : BatchesFor(snapshot, h) = {}]_vars

\* One block found one open order expired and the other lapsed; both are done
\* with the block's deadline and the block's snapshot is on the channel.
C15_Witness ==
    /\ ev.kind = "block" /\ ev.ok /\ pc = "idle"
    /\ \E h \in Hashes : ev.resolutions[h] = "Expired"
    /\ \E h \in Hashes : ev.resolutions[h] = "Invalid"
    /\ \A h \in Hashes :
          /\ ev.before[h] = "open"
          /\ h \notin OpenSet
          /\ done_orders[h] = last_block_timestamp + 300
    /\ Len(batch_channel) > 0
    /\ batch_channel[Len(batch_channel)] = EmptyBag

----------------------------------------------------------------------------
RECURSIVE FillAll(_, _, _)
\* The ledger once the fill logs for the hashes hs have been processed.
FillAll(l, hs, ts) ==
    IF hs = {} THEN l
    ELSE LET h == CHOOSE x \in hs : TRUE IN FillAll(FillOne(l, h, ts), hs \ {h}, ts)

(* C16: re-resolution is idempotent at a fixed timestamp.  For the ledger that
   a block handler re-resolves (the one its fill logs left), running
   update_open_orders a second time at the same timestamp gives the ledger the
   first run gave: the same open keys and records, the same done keys and
   deadlines.  The first run is the one the handler made: pruning its result
   gives the maps of the next state. *)
C16_ReresolveIdempotent ==
    [][(EventStep("block") /\ ev'.ok /\ ev'.res # "NoTopic") =>
         \A once \in {UpdateOpenOrders(FillAll(Ledger(open_orders, done_orders),
                                               ev'.hashes, last_block_timestamp'),
                                       last_block_timestamp')} :
            /\ PruneDoneOrders(once, last_block_timestamp')
                  = Ledger(open_orders', done_orders')
            /\ UpdateOpenOrders(once, last_block_timestamp') = once]_vars

\* A re-resolution has kept one order open and moved the other to done.
C16_Witness ==
    /\ ev.kind = "block" /\ ev.ok /\ pc = "idle"
    /\ \E h \in OpenSet : ev.resolutions[h] = "Resolved"
    /\ \E h \in DoneSet :
          /\ ev.resolutions[h] \in {"Expired", "Invalid"}
          /\ done_orders[h] = last_block_timestamp + DONE_EXPIRY

----------------------------------------------------------------------------
(* C17: an order-submission event whose payload fails to decode, for bad hex
   or for a malformed layout, leaves the open map, the done map and the last
   block number and timestamp as they were and returns no action, in every
   state. *)
C17_DecodeFailureLeavesLedger ==
    [][(EventStep("order") /\ ~ev'.ok) =>
         /\ open_orders' = open_orders
         /\ done_orders' = done_orders
         /\ last_block_number' = last_block_number
         /\ last_block_timestamp' = last_block_timestamp
         /\ action' = None]_vars

\* A payload that does not decode was submitted under the hash of an open
\* order while the other hash is done.
C17_Witness ==
    /\ ev.kind = "order" /\ ~ev.ok
    /\ last_block_timestamp # 0
    /\ \E h \in ev.hashes : ev.before[h] = "open" /\ h \in OpenSet
    /\ DoneSet # {}
    /\ action = None

----------------------------------------------------------------------------
(* C18 as stated: a submission action is returned only for orders that are in
   the open map; a route whose order hash is in neither map returns none. *)
C18_ActionOnlyForOpenOrders ==
    [][(EventStep("route") /\ action' # None) => ev'.hashes \subseteq OpenSet]_vars

(* C18 amended: a submission action is returned only for a route none of whose
   order hashes is in the done map and whose quote is above the required
   output.  The open map is not consulted: such a route returns an action also
   when its hashes are in neither map. *)
C18_ActionOnlyForLiveProfitableRoute ==
    [][(EventStep("route") /\ action' # None) =>
         /\ ev'.hashes \cap DoneSet = {}
         /\ ev'.res = "QuoteGtRequired"]_vars

\* After a block, an action was returned for a route whose only order is in
\* neither map while the other hash is open.
C18_Witness ==
    /\ ev.kind = "route" /\ action # None
    /\ last_block_timestamp # 0
    /\ \A h \in ev.hashes : ev.before[h] = "none"
    /\ OpenSet # {}

----------------------------------------------------------------------------
(* C19: every submission action carries a strictly positive total_profit: no
   action is returned when the profit converted to the reference asset is
   zero. *)
C19_ActionProfitPositive ==
    action # None => action.val.total_profit > 0

----------------------------------------------------------------------------
(* C20: every done entry is eventually pruned when blocks keep arriving with
   strictly increasing timestamps and their log queries succeed.  In the form
   a finite run refutes: the strategy, fed such blocks, is never in a state in
   which it has stopped handling events for good while the done map still
   holds an entry.  Stated for log answers whose logs all carry the order-hash
   topic. *)
C20_DoneEntryNeverStranded ==
    ~(pc = "panicked" /\ ev.res # "NoTopic" /\ DoneSet # {})

====
